---- MODULE Spec2Model ----
(***************************************************************************)
(* Short Weierstrass curve gadgets of curta:                               *)
(*   src/curta/src/chip/ec/weierstrass/mod.rs                              *)
(* The descriptor accessors (a_int, b_int, nb_scalar_bits, generator) are  *)
(* pure functions of the curve parameter descriptor E; the gadgets         *)
(* (ec_add, ec_double, ec_generator) append registers and constraints to   *)
(* one AIR builder.                                                        *)
(***************************************************************************)
EXTENDS Integers, Sequences, FiniteSets, TLC

VARIABLES E, builder, points, calls, ret

vars == <<E, builder, points, calls, ret>>

(***************************************************************************)
(* Bounds of the model.                                                    *)
(***************************************************************************)
\* Length of the limb arrays A and B (crate::chip::field::parameters).
MAX_NB_LIMBS == 2

\* Number of builder operations (point allocations and gadget calls).
MaxOps == 3

\* Width of one limb in bits: the `16 * i` of a_int / b_int and the `* 16`
\* of nb_scalar_bits.
LimbBits == 16

(***************************************************************************)
(* BigUint: an arbitrary-precision natural number, as its binary digits,   *)
(* least significant first, without leading (high) zeros.                  *)
(***************************************************************************)
BigZero == << >>

RECURSIVE BigFrom(_)
BigFrom(n) == IF n = 0 THEN << >> ELSE <<n % 2>> \o BigFrom(n \div 2)

RECURSIVE BigToNat(_)
BigToNat(x) == IF x = << >> THEN 0 ELSE Head(x) + 2 * BigToNat(Tail(x))

Zeros(k) == [j \in 1..k |-> 0]

\* x << k
BigShl(x, k) == IF x = << >> THEN << >> ELSE Zeros(k) \o x

RECURSIVE BigAddCarry(_, _, _)
BigAddCarry(x, y, c) ==
    IF x = << >> /\ y = << >>
    THEN IF c = 1 THEN <<1>> ELSE << >>
    ELSE LET a == IF x = << >> THEN 0 ELSE Head(x)
             b == IF y = << >> THEN 0 ELSE Head(y)
             s == a + b + c
         IN  <<s % 2>> \o BigAddCarry(IF x = << >> THEN x ELSE Tail(x),
                                      IF y = << >> THEN y ELSE Tail(y),
                                      s \div 2)

\* x + y
BigAdd(x, y) == BigAddCarry(x, y, 0)

\* Number of bits needed to represent x.
BigBits(x) == Len(x)

RECURSIVE BigLessFrom(_, _, _)
BigLessFrom(x, y, k) ==
    IF k = 0 THEN FALSE
    ELSE IF x[k] # y[k] THEN x[k] < y[k]
    ELSE BigLessFrom(x, y, k - 1)

\* x < y
BigLess(x, y) ==
    \/ Len(x) < Len(y)
    \/ Len(x) = Len(y) /\ BigLessFrom(x, y, Len(x))

\* 2^k
BigPow2(k) == BigShl(<<1>>, k)

(***************************************************************************)
(* WeierstrassParameters: a_int, b_int, nb_scalar_bits.                    *)
(***************************************************************************)
\* for (i, limb) in Self::A.iter().enumerate() { modulus += limb << (16*i) }
RECURSIVE a_int_loop(_, _, _)
a_int_loop(limbs, i, modulus) ==
    IF i >= Len(limbs) THEN modulus
    ELSE a_int_loop(limbs, i + 1,
                    BigAdd(modulus, BigShl(BigFrom(limbs[i + 1]), LimbBits * i)))

\* A plausible slip: the limbs read most significant first.
RECURSIVE a_int_loop_be(_, _, _)
a_int_loop_be(limbs, i, modulus) ==
    IF i >= Len(limbs) THEN modulus
    ELSE a_int_loop_be(limbs, i + 1,
            BigAdd(modulus,
                   BigShl(BigFrom(limbs[i + 1]), LimbBits * (Len(limbs) - 1 - i))))

a_int_big_endian(D) == a_int_loop_be(D.A, 0, BigZero)

a_int(D) == a_int_loop(D.A, 0, BigZero)

RECURSIVE b_int_loop(_, _, _)
b_int_loop(limbs, i, modulus) ==
    IF i >= Len(limbs) THEN modulus
    ELSE b_int_loop(limbs, i + 1,
                    BigAdd(modulus, BigShl(BigFrom(limbs[i + 1]), LimbBits * i)))

\* A plausible slip: a byte-wide shift.
RECURSIVE b_int_loop_byte(_, _, _)
b_int_loop_byte(limbs, i, modulus) ==
    IF i >= Len(limbs) THEN modulus
    ELSE b_int_loop_byte(limbs, i + 1,
            BigAdd(modulus, BigShl(BigFrom(limbs[i + 1]), 8 * i)))

b_int_byte_shift(D) == b_int_loop_byte(D.B, 0, BigZero)

b_int(D) == b_int_loop(D.B, 0, BigZero)

\* A plausible slip: sized to the group order instead of the base field.
nb_scalar_bits_of_order(D) == BigBits(D.order)

nb_scalar_bits(D) == D.BaseField.NB_LIMBS * LimbBits

(***************************************************************************)
(* SWCurve<E>: generator, a_int, b_int.                                    *)
(***************************************************************************)
AffinePoint_new(x, y) == [x |-> x, y |-> y]

\* A plausible slip: the coordinates swapped.
SWCurve_generator_swapped(D) ==
    LET point == D.generator IN AffinePoint_new(point.y, point.x)

SWCurve_generator(D) ==
    LET point == D.generator IN AffinePoint_new(point.x, point.y)

SWCurve_a_int(D) == a_int(D)

SWCurve_b_int(D) == b_int(D)

(***************************************************************************)
(* Curve parameter descriptors: the constants an implementation of         *)
(* WeierstrassParameters supplies (A, B, BaseField, generator(),           *)
(* prime_group_order()).                                                   *)
(***************************************************************************)
\* A small constant as a zero-padded limb array, least significant limb first.
LimbsOf(n) == [i \in 1..MAX_NB_LIMBS |-> IF i = 1 THEN n ELSE 0]

Descriptor(p, a, b, gx, gy, n, k) ==
    [A         |-> LimbsOf(a),
     B         |-> LimbsOf(b),
     BaseField |-> [NB_LIMBS |-> k, MODULUS |-> p],
     generator |-> [x |-> BigFrom(gx), y |-> BigFrom(gy)],
     order     |-> BigFrom(n)]

\* Every non-singular curve y^2 = x^3 + a x + b over the prime field F_5, and
\* two over F_7 (one of prime order 13, one with a point of order two), as
\* <<p, a, b, gx, gy, n>>: (gx, gy) is a point of prime order n.
ToyCurveTable ==
    { <<5, 0, 1, 0, 1, 3>>, <<5, 0, 2, 3, 2, 3>>, <<5, 0, 3, 2, 1, 3>>,
      <<5, 0, 4, 0, 2, 3>>, <<5, 1, 0, 0, 0, 2>>, <<5, 1, 1, 2, 1, 3>>,
      <<5, 1, 2, 4, 0, 2>>, <<5, 1, 3, 1, 0, 2>>, <<5, 1, 4, 3, 2, 3>>,
      <<5, 2, 0, 0, 0, 2>>, <<5, 2, 1, 0, 1, 7>>, <<5, 2, 4, 0, 2, 7>>,
      <<5, 3, 0, 1, 2, 5>>, <<5, 3, 2, 1, 1, 5>>, <<5, 3, 3, 3, 2, 5>>,
      <<5, 4, 0, 0, 0, 2>>, <<5, 4, 1, 3, 0, 2>>, <<5, 4, 2, 3, 1, 3>>,
      <<5, 4, 3, 2, 2, 3>>, <<5, 4, 4, 2, 0, 2>>,
      <<7, 0, 3, 1, 2, 13>>, <<7, 3, 0, 0, 0, 2>> }

ToyCurves ==
    { Descriptor(t[1], t[2], t[3], t[4], t[5], t[6], 1) : t \in ToyCurveTable }

\* y^2 = x^3 + x + 60 over F_65521 (one 16-bit limb): its group has prime
\* order 65699, generated by (0, 512); the order exceeds 2^16.
WideOrderCurve == Descriptor(65521, 1, 60, 0, 512, 65699, 1)

\* Limb values the sampled arrays are built from.
LimbSamples == {0, 1, 65535}

LimbArrays == [1..MAX_NB_LIMBS -> LimbSamples]

\* Descriptors whose A and B range over the sampled limb arrays.  a_int and
\* b_int read nothing but A and B, nb_scalar_bits nothing but NB_LIMBS; the
\* other constants are those of a reference profile.
SampledDescriptors ==
    { [A         |-> la,
       B         |-> lb,
       BaseField |-> [NB_LIMBS |-> k, MODULUS |-> 65521],
       generator |-> [x |-> BigFrom(0), y |-> BigFrom(512)],
       order     |-> BigFrom(n)] :
      la \in LimbArrays, lb \in LimbArrays, k \in 1..MAX_NB_LIMBS,
      n \in {3, 65521} }

(***************************************************************************)
(* AirBuilder: the register table and the constraints emitted so far.      *)
(* A register is "input" (a witness supplied at proving time), "const"     *)
(* (pinned by fp_constant) or "local" (the output of a field instruction). *)
(***************************************************************************)
Constraint(op, out, l, r, value) ==
    [op |-> op, out |-> out, l |-> l, r |-> r, value |-> value]

\* Allocates the next register of the builder.
alloc(b, kind) ==
    [b |-> [b EXCEPT !.regs = Append(@, kind)], r |-> Len(b.regs) + 1]

emit(b, c) == [b EXCEPT !.constraints = Append(@, c)]

\* fp_constant(&value): a new register pinned to value.
fp_constant(b, value) ==
    LET a == alloc(b, "const")
    IN  [b |-> emit(a.b, Constraint("const", a.r, 0, 0, value)), r |-> a.r]

\* A field instruction out = l op r: a new register and its constraint.
fp_instr(b, op, l, r) ==
    LET a == alloc(b, "local")
    IN  [b |-> emit(a.b, Constraint(op, a.r, l, r, BigZero)), r |-> a.r]

fp_add(b, l, r) == fp_instr(b, "add", l, r)

fp_sub(b, l, r) == fp_instr(b, "sub", l, r)

fp_mul(b, l, r) == fp_instr(b, "mul", l, r)

fp_div(b, l, r) == fp_instr(b, "div", l, r)

AffinePointRegister_new(x, y) == [x |-> x, y |-> y]

\* The circuit allocates a witness point: two input registers.
alloc_ec_point(b) ==
    LET x == alloc(b, "input")
        y == alloc(x.b, "input")
    IN  [b |-> y.b, point |-> AffinePointRegister_new(x.r, y.r)]

\* Chord rule: m = (y_q - y_p) / (x_q - x_p), x3 = m^2 - (x_p + x_q),
\* y3 = m (x_p - x3) - y_p.
sw_add(b, p, q) ==
    LET num   == fp_sub(b, q.y, p.y)
        den   == fp_sub(num.b, q.x, p.x)
        slope == fp_div(den.b, num.r, den.r)
        sq    == fp_mul(slope.b, slope.r, slope.r)
        sum   == fp_add(sq.b, p.x, q.x)
        x3    == fp_sub(sum.b, sq.r, sum.r)
        dx    == fp_sub(x3.b, p.x, x3.r)
        prod  == fp_mul(dx.b, slope.r, dx.r)
        y3    == fp_sub(prod.b, prod.r, p.y)
    IN  [b |-> y3.b, point |-> AffinePointRegister_new(x3.r, y3.r)]

\* Tangent rule: m = (3 x^2 + a) / (2 y), x3 = m^2 - 2 x, y3 = m (x - x3) - y.
sw_double(b, p, a, three) ==
    LET xsq   == fp_mul(b, p.x, p.x)
        xsq3  == fp_mul(xsq.b, xsq.r, three)
        num   == fp_add(xsq3.b, xsq3.r, a)
        den   == fp_add(num.b, p.y, p.y)
        slope == fp_div(den.b, num.r, den.r)
        sq    == fp_mul(slope.b, slope.r, slope.r)
        twox  == fp_add(sq.b, p.x, p.x)
        x3    == fp_sub(twox.b, sq.r, twox.r)
        dx    == fp_sub(x3.b, p.x, x3.r)
        prod  == fp_mul(dx.b, slope.r, dx.r)
        y3    == fp_sub(prod.b, prod.r, p.y)
    IN  [b |-> y3.b, point |-> AffinePointRegister_new(x3.r, y3.r)]

(***************************************************************************)
(* impl EllipticCurve for SWCurve<E>: ec_add, ec_double, ec_generator.     *)
(***************************************************************************)
\* A plausible slip: the first operand passed twice.
ec_add_same_operand(b, D, p, q) == sw_add(b, p, p)

\* A plausible slip: the tangent rule applied to the first operand.
ec_add_as_double(b, D, p, q) ==
    LET a     == fp_constant(b, a_int(D))
        three == fp_constant(a.b, BigFrom(3))
    IN  sw_double(three.b, p, a.r, three.r)

ec_add(b, D, p, q) == sw_add(b, p, q)

\* The registers of b already pinned to value.
PinnedTo(b, value) ==
    { b.constraints[j].out : j \in { j \in 1..Len(b.constraints) :
          b.constraints[j].op = "const" /\ b.constraints[j].value = value } }

\* A plausible slip: the two constants passed in the wrong order.
ec_double_swapped_constants(b, D, p) ==
    LET a     == fp_constant(b, a_int(D))
        three == fp_constant(a.b, BigFrom(3))
    IN  sw_double(three.b, p, three.r, a.r)

\* A plausible slip: 3 injected before a.
ec_double_three_first(b, D, p) ==
    LET three == fp_constant(b, BigFrom(3))
        a     == fp_constant(three.b, a_int(D))
    IN  sw_double(a.b, p, a.r, three.r)

\* A plausible change: the constants of an earlier call reused.
ec_double_cached(b, D, p) ==
    IF PinnedTo(b, a_int(D)) # {} /\ PinnedTo(b, BigFrom(3)) # {}
    THEN sw_double(b, p, CHOOSE r \in PinnedTo(b, a_int(D)) : TRUE,
                   CHOOSE r \in PinnedTo(b, BigFrom(3)) : TRUE)
    ELSE LET a     == fp_constant(b, a_int(D))
             three == fp_constant(a.b, BigFrom(3))
         IN  sw_double(three.b, p, a.r, three.r)

ec_double(b, D, p) ==
    LET a     == fp_constant(b, a_int(D))
        three == fp_constant(a.b, BigFrom(3))
    IN  sw_double(three.b, p, a.r, three.r)

\* A plausible slip: the coordinate registers swapped.
ec_generator_swapped(b, D) ==
    LET generator == D.generator
        x == fp_constant(b, generator.x)
        y == fp_constant(x.b, generator.y)
    IN  [b |-> y.b, point |-> AffinePointRegister_new(y.r, x.r)]

\* A plausible change: the generator registers of an earlier call returned.
ec_generator_cached(b, D) ==
    LET generator == D.generator IN
    IF PinnedTo(b, generator.x) # {} /\ PinnedTo(b, generator.y) # {}
    THEN [b |-> b,
          point |-> AffinePointRegister_new(
                        CHOOSE r \in PinnedTo(b, generator.x) : TRUE,
                        CHOOSE r \in PinnedTo(b, generator.y) : TRUE)]
    ELSE LET x == fp_constant(b, generator.x)
             y == fp_constant(x.b, generator.y)
         IN  [b |-> y.b, point |-> AffinePointRegister_new(x.r, y.r)]

ec_generator(b, D) ==
    LET generator == D.generator
        x == fp_constant(b, generator.x)
        y == fp_constant(x.b, generator.y)
    IN  [b |-> y.b, point |-> AffinePointRegister_new(x.r, y.r)]

NoReturn == [op |-> "none", value |-> << >>]

EmptyBuilder == [regs |-> << >>, constraints |-> << >>]

(***************************************************************************)
(* The accessor calls.                                                     *)
(***************************************************************************)
Return(op, value) ==
    /\ ret' = [op |-> op, value |-> value]
    /\ UNCHANGED <<E, builder, points, calls>>

Call_a_int == Return("a_int", a_int(E))

Call_b_int == Return("b_int", b_int(E))

Call_nb_scalar_bits == Return("nb_scalar_bits", nb_scalar_bits(E))

Call_SWCurve_a_int == Return("SWCurve::a_int", SWCurve_a_int(E))

Call_SWCurve_b_int == Return("SWCurve::b_int", SWCurve_b_int(E))

Call_SWCurve_generator == Return("SWCurve::generator", SWCurve_generator(E))

InitCodec ==
    /\ E \in SampledDescriptors \cup ToyCurves \cup {WideOrderCurve}
    /\ builder = EmptyBuilder
    /\ points = << >>
    /\ calls = << >>
    /\ ret = NoReturn

NextCodec ==
    \/ Call_a_int
    \/ Call_b_int
    \/ Call_nb_scalar_bits
    \/ Call_SWCurve_a_int
    \/ Call_SWCurve_b_int
    \/ Call_SWCurve_generator

SpecCodec == InitCodec /\ [][NextCodec]_vars

(***************************************************************************)
(* What the constraints mean: an assignment v gives each register a value  *)
(* of the base field F_m; a constant register is pinned to its value, the  *)
(* output of a field instruction to the result, and a division requires an *)
(* invertible divisor.                                                     *)
(***************************************************************************)
Holds(c, v, m) ==
    CASE c.op = "const" -> v[c.out] = BigToNat(c.value)
      [] c.op = "add"   -> v[c.out] = (v[c.l] + v[c.r]) % m
      [] c.op = "sub"   -> v[c.out] = (v[c.l] - v[c.r]) % m
      [] c.op = "mul"   -> v[c.out] = (v[c.l] * v[c.r]) % m
      [] c.op = "div"   -> v[c.r] # 0 /\ (v[c.out] * v[c.r]) % m = v[c.l]

\* The assignments that extend v to the outputs of constraints k..hi of cs and
\* satisfy them.
RECURSIVE Sols(_, _, _, _, _)
Sols(cs, k, hi, v, m) ==
    IF k > hi THEN {v}
    ELSE UNION { Sols(cs, k + 1, hi, w, m) :
                 w \in { w \in { (cs[k].out :> z) @@ v : z \in 0..(m - 1) } :
                         Holds(cs[k], w, m) } }

(***************************************************************************)
(* The circuit under construction: it holds the point registers it has     *)
(* allocated or been returned (points) and calls the gadgets on them.      *)
(* calls logs each operation with the builder's size before and after it.  *)
(***************************************************************************)
NoPoint == [x |-> 0, y |-> 0]

Apply(op, p, q, res) ==
    /\ Len(calls) < MaxOps
    /\ builder' = res.b
    /\ points' = Append(points, res.point)
    /\ calls' = Append(calls,
                       [op    |-> op,
                        p     |-> p,
                        q     |-> q,
                        point |-> res.point,
                        regs0 |-> Len(builder.regs),
                        regs1 |-> Len(res.b.regs),
                        cons0 |-> Len(builder.constraints),
                        cons1 |-> Len(res.b.constraints)])
    /\ UNCHANGED <<E, ret>>

AllocPoint == Apply("alloc_ec_point", NoPoint, NoPoint, alloc_ec_point(builder))

EcAdd ==
    \E i \in 1..Len(points), j \in 1..Len(points) :
        Apply("ec_add", points[i], points[j],
              ec_add(builder, E, points[i], points[j]))

EcDouble ==
    \E i \in 1..Len(points) :
        Apply("ec_double", points[i], points[i],
              ec_double(builder, E, points[i]))

EcGenerator == Apply("ec_generator", NoPoint, NoPoint, ec_generator(builder, E))

Init ==
    /\ E \in ToyCurves
    /\ builder = EmptyBuilder
    /\ points = << >>
    /\ calls = << >>
    /\ ret = NoReturn

Next ==
    \/ AllocPoint
    \/ EcAdd
    \/ EcDouble
    \/ EcGenerator
    \/ Call_SWCurve_generator

Spec == Init /\ [][Next]_vars

(***************************************************************************)
(* Positional notation, for stating the claims about a_int and b_int.      *)
(***************************************************************************)
Bit(x, j) == IF j <= Len(x) THEN x[j] ELSE 0

RECURSIVE BitsValue(_, _, _)
BitsValue(x, from, n) ==
    IF n = 0 THEN 0 ELSE Bit(x, from) + 2 * BitsValue(x, from + 1, n - 1)

\* The base-65536 digit of x at position i (from 0).
Digit(x, i) == BitsValue(x, LimbBits * i + 1, LimbBits)

Canonical(x) == x = << >> \/ x[Len(x)] = 1

RECURSIVE Pow(_, _)
Pow(base, k) == IF k = 0 THEN 1 ELSE base * Pow(base, k - 1)

\* The limb arrays whose value fits a 31-bit integer.
FitsNat(L) ==
    /\ \A i \in 1..Len(L) : i > 2 => L[i] = 0
    /\ Len(L) >= 2 => L[2] < 32768

RECURSIVE PosSumFrom(_, _)
PosSumFrom(L, i) ==
    IF i >= Len(L) \/ i >= 2 THEN 0
    ELSE L[i + 1] * Pow(65536, i) + PosSumFrom(L, i + 1)

\* sum over i of L[i] * 65536^i, for an array that FitsNat.
PosSum(L) == PosSumFrom(L, 0)

\* x is the integer whose base-65536 digits, least significant first, are L:
\* x = sum over i of L[i] * 65536^i.
IsPositional(x, L) ==
    /\ Canonical(x)
    /\ Len(x) <= LimbBits * Len(L)
    /\ \A i \in 0..(Len(L) - 1) : Digit(x, i) = L[i + 1]
    /\ FitsNat(L) => BigToNat(x) = PosSum(L)

\* C1: a_int() and b_int() return the sum over i of L[i] * 65536^i of the limb
\* array A, resp. B (limb 0 least significant); SWCurve's a_int() and b_int()
\* return the same values.
C1_LimbsToInteger ==
    /\ ret.op = "a_int" => IsPositional(ret.value, E.A)
    /\ ret.op = "b_int" => IsPositional(ret.value, E.B)
    /\ ret.op = "SWCurve::a_int" =>
           ret.value = a_int(E) /\ IsPositional(ret.value, E.A)
    /\ ret.op = "SWCurve::b_int" =>
           ret.value = b_int(E) /\ IsPositional(ret.value, E.B)

\* a_int() has returned for an array with distinct non-zero low and high limbs.
C1_Witness ==
    /\ ret.op = "a_int"
    /\ E.A[MAX_NB_LIMBS] = 65535
    /\ E.A[1] = 1
    /\ Len(ret.value) = LimbBits * MAX_NB_LIMBS

Ones(k) == [j \in 1..k |-> 1]

ChunkSamples == {Zeros(LimbBits), <<1>> \o Zeros(LimbBits - 1), Ones(LimbBits)}

RECURSIVE Canon(_)
Canon(x) ==
    IF x = << >> \/ x[Len(x)] = 1 THEN x ELSE Canon(SubSeq(x, 1, Len(x) - 1))

RECURSIVE Concat(_, _)
Concat(f, i) == IF i > MAX_NB_LIMBS THEN << >> ELSE f[i] \o Concat(f, i + 1)

\* Sampled integers 0 <= n <= 2^(16 * MAX_NB_LIMBS) - 1, written in binary.
IntSamples == { Canon(Concat(f, 1)) : f \in [1..MAX_NB_LIMBS -> ChunkSamples] }

\* n as a MAX_NB_LIMBS-long base-65536 limb array, least significant limb
\* first, zero-padded.
LimbEncoding(n) == [i \in 1..MAX_NB_LIMBS |-> Digit(n, i - 1)]

\* C2: decoding the limb encoding of n with a_int / b_int yields n; decoding is
\* injective on limb arrays and its result is below 2^(16 * MAX_NB_LIMBS).
C2_RoundTrip ==
    /\ ret.op = "a_int" =>
         /\ \A n \in IntSamples : E.A = LimbEncoding(n) => ret.value = n
         /\ ret.value = b_int(E) => E.A = E.B
         /\ BigLess(ret.value, BigPow2(LimbBits * MAX_NB_LIMBS))
    /\ ret.op = "b_int" =>
         /\ \A n \in IntSamples : E.B = LimbEncoding(n) => ret.value = n
         /\ ret.value = a_int(E) => E.A = E.B
         /\ BigLess(ret.value, BigPow2(LimbBits * MAX_NB_LIMBS))

\* b_int() has decoded the encoding of the largest integer 2^(16 * MAX) - 1.
C2_Witness ==
    /\ ret.op = "b_int"
    /\ E.B = LimbEncoding(Ones(LimbBits * MAX_NB_LIMBS))
    /\ ret.value = Ones(LimbBits * MAX_NB_LIMBS)
    /\ E.A # E.B

ScalarSamples == { BigFrom(k) : k \in {0, 1, 2, 6, 65520, 65535, 65536, 65698} }

ScalarsBelowOrder == { k \in ScalarSamples : BigLess(k, E.order) }

OrderSamples == { BigFrom(n) : n \in {2, 3, 65521, 65699} }

\* C7 as stated: nb_scalar_bits() is NB_LIMBS * 16 and bounds the number of bits
\* of every scalar below the prime group order.
C7_BoundsEveryScalar ==
    ret.op = "nb_scalar_bits" =>
        /\ ret.value = E.BaseField.NB_LIMBS * 16
        /\ \A k \in ScalarsBelowOrder : BigBits(k) <= ret.value

\* C7, amended: nb_scalar_bits() is NB_LIMBS * 16 whatever the prime group
\* order is, and bounds the number of bits of every scalar below the order
\* when the order is at most 2^(16 * NB_LIMBS).
C7_BoundsScalarsOfFieldSizedOrder ==
    ret.op = "nb_scalar_bits" =>
        /\ ret.value = E.BaseField.NB_LIMBS * 16
        /\ \A o \in OrderSamples : nb_scalar_bits([E EXCEPT !.order = o]) = ret.value
        /\ ~BigLess(BigPow2(LimbBits * E.BaseField.NB_LIMBS), E.order) =>
               \A k \in ScalarsBelowOrder : BigBits(k) <= ret.value

\* nb_scalar_bits() has returned for a one-limb field whose group has a scalar
\* of exactly 16 bits.
C7_Witness ==
    /\ ret.op = "nb_scalar_bits"
    /\ E.BaseField.NB_LIMBS = 1
    /\ ~BigLess(BigPow2(LimbBits * E.BaseField.NB_LIMBS), E.order)
    /\ \E k \in ScalarsBelowOrder : BigBits(k) = ret.value

(***************************************************************************)
(* The curve y^2 = x^3 + a x + b over F_m and its group law, for stating   *)
(* the claims about the gadgets.                                           *)
(***************************************************************************)
Modulus == E.BaseField.MODULUS

Fp == 0..(Modulus - 1)

CoeffA == PosSum(E.A)

CoeffB == PosSum(E.B)

OnCurve(x, y) == (y * y) % Modulus = (x * x * x + CoeffA * x + CoeffB) % Modulus

Inverse(d) == CHOOSE z \in Fp : (z * d) % Modulus = 1

ChordRule(x1, y1, x2, y2) ==
    LET m  == ((y2 - y1) * Inverse((x2 - x1) % Modulus)) % Modulus
        x3 == (m * m - x1 - x2) % Modulus
        y3 == (m * (x1 - x3) - y1) % Modulus
    IN  <<x3, y3>>

TangentRule(x, y) ==
    LET m  == ((3 * x * x + CoeffA) * Inverse((2 * y) % Modulus)) % Modulus
        x3 == (m * m - 2 * x) % Modulus
        y3 == (m * (x - x3) - y) % Modulus
    IN  <<x3, y3>>

CallsOf(op) == { k \in 1..Len(calls) : calls[k].op = op }

\* The values the operand registers of call c may hold.
OperandValues(c) == [{c.p.x, c.p.y, c.q.x, c.q.y} -> Fp]

\* The assignments of the registers of call c that satisfy its constraints,
\* given the values v0 of its operands.
CallSols(c, v0) == Sols(builder.constraints, c.cons0 + 1, c.cons1, v0, Modulus)

PointValue(v, pt) == <<v[pt.x], v[pt.y]>>

LastCall == calls[Len(calls)]

\* The last operation on the builder was a call of op, which has returned: the
\* constraints the call emitted are the last of the builder.
Returned(op) == calls # << >> /\ LastCall.op = op

\* C3: ec_generator returns a point whose x and y are constant registers
\* pinned to the generator's coordinates, x injected first, wherever the call
\* stands among the others; SWCurve::generator() has the same coordinates.
C3_GeneratorPinned ==
    /\ \A k \in CallsOf("ec_generator") :
         LET c  == calls[k]
             cx == builder.constraints[c.cons0 + 1]
             cy == builder.constraints[c.cons0 + 2]
         IN  /\ c.cons1 = c.cons0 + 2
             /\ c.point = [x |-> c.regs0 + 1, y |-> c.regs0 + 2]
             /\ builder.regs[c.point.x] = "const"
             /\ builder.regs[c.point.y] = "const"
             /\ cx = Constraint("const", c.point.x, 0, 0, E.generator.x)
             /\ cy = Constraint("const", c.point.y, 0, 0, E.generator.y)
             /\ { PointValue(v, c.point) : v \in CallSols(c, << >>) }
                    = { <<BigToNat(E.generator.x), BigToNat(E.generator.y)>> }
    /\ ret.op = "SWCurve::generator" =>
         ret.value.x = E.generator.x /\ ret.value.y = E.generator.y

\* ec_generator has been called twice, once after another gadget, and
\* SWCurve::generator() has returned.
C3_Witness ==
    /\ Cardinality(CallsOf("ec_generator")) >= 2
    /\ Len(calls) = MaxOps
    /\ LastCall.op = "ec_generator"
    /\ \E k \in 1..Len(calls) : calls[k].op \in {"ec_double", "ec_add"}
    /\ E.generator.x # E.generator.y
    /\ ret.op = "SWCurve::generator"

\* C4: when ec_add(p, q) returns, for points p, q on the curve with x_p # x_q,
\* the constraints it emitted are satisfied by exactly the chord-rule point, which lies on
\* the curve, and the constraints of ec_add(q, p) by the same point.
C4_AddOnCurveCommutes ==
    Returned("ec_add") =>
        LET c   == LastCall
            rev == ec_add(builder, E, c.q, c.p)
        IN
        \A v0 \in OperandValues(c) :
            ( /\ OnCurve(v0[c.p.x], v0[c.p.y])
              /\ OnCurve(v0[c.q.x], v0[c.q.y])
              /\ v0[c.p.x] # v0[c.q.x] ) =>
            LET S == { PointValue(v, c.point) : v \in CallSols(c, v0) }
                R == { PointValue(v, rev.point) :
                       v \in Sols(rev.b.constraints,
                                  Len(builder.constraints) + 1,
                                  Len(rev.b.constraints), v0, Modulus) }
            IN  /\ S = { ChordRule(v0[c.p.x], v0[c.p.y], v0[c.q.x], v0[c.q.y]) }
                /\ \A s \in S : OnCurve(s[1], s[2])
                /\ R = S

\* ec_add has been called on two points that can lie on the curve with
\* different x-coordinates.
C4_Witness ==
    /\ calls # << >>
    /\ LastCall.op = "ec_add"
    /\ \E v0 \in OperandValues(LastCall) :
         /\ OnCurve(v0[LastCall.p.x], v0[LastCall.p.y])
         /\ OnCurve(v0[LastCall.q.x], v0[LastCall.q.y])
         /\ v0[LastCall.p.x] # v0[LastCall.q.x]
         /\ CallSols(LastCall, v0) # {}

\* The points that satisfy the constraints of the ec_double call c when its
\* operand has the values v0.
DoubleSols(c, v0) == { PointValue(v, c.point) : v \in CallSols(c, v0) }

\* C5 as stated: when ec_double(p) returns, for every point p = (x, y) on the
\* curve, a point satisfies the constraints it emitted, and it is the tangent-rule double of
\* p, on the curve.
C5_DoubleOfEveryPoint ==
    Returned("ec_double") =>
        LET c == LastCall IN
        \A v0 \in OperandValues(c) :
            OnCurve(v0[c.p.x], v0[c.p.y]) =>
                /\ DoubleSols(c, v0) # {}
                /\ \A s \in DoubleSols(c, v0) :
                       /\ s = TangentRule(v0[c.p.x], v0[c.p.y])
                       /\ OnCurve(s[1], s[2])

\* C5, amended: when ec_double(p) returns, for a point p = (x, y) on the curve
\* with y # 0, the constraints it emitted pin their two constants to a (the value
\* of the A limbs) and 3 and are satisfied by exactly the tangent-rule double
\* of p, which lies on the curve.
C5_DoubleIsTangentRule ==
    Returned("ec_double") =>
        LET c == LastCall IN
        \A v0 \in OperandValues(c) :
            (OnCurve(v0[c.p.x], v0[c.p.y]) /\ v0[c.p.y] # 0) =>
            LET V == CallSols(c, v0) IN
            /\ \A v \in V : v[c.regs0 + 1] = CoeffA /\ v[c.regs0 + 2] = 3
            /\ DoubleSols(c, v0) = { TangentRule(v0[c.p.x], v0[c.p.y]) }
            /\ \A s \in DoubleSols(c, v0) : OnCurve(s[1], s[2])

\* ec_double has been called on a point that can lie on the curve with y # 0,
\* on a curve with a # 0 and a # 3.
C5_Witness ==
    /\ calls # << >>
    /\ LastCall.op = "ec_double"
    /\ CoeffA \notin {0, 3}
    /\ \E v0 \in OperandValues(LastCall) :
         /\ OnCurve(v0[LastCall.p.x], v0[LastCall.p.y])
         /\ v0[LastCall.p.y] # 0
         /\ CallSols(LastCall, v0) # {}

\* C6: ec_add returns a point register of its own for any two points, and
\* when they have the same x-coordinate and different y-coordinates no
\* assignment satisfies the constraints it emitted.
C6_SameXInfeasible ==
    Returned("ec_add") =>
        LET c == LastCall IN
        /\ c.point.x \in (c.regs0 + 1)..Len(builder.regs)
        /\ c.point.y \in (c.regs0 + 1)..Len(builder.regs)
        /\ \A v0 \in OperandValues(c) :
             (v0[c.p.x] = v0[c.q.x] /\ v0[c.p.y] # v0[c.q.y]) =>
                 CallSols(c, v0) = {}

\* ec_add has been called on two points that can be P and -P on the curve.
C6_Witness ==
    /\ calls # << >>
    /\ LastCall.op = "ec_add"
    /\ \E v0 \in OperandValues(LastCall) :
         /\ OnCurve(v0[LastCall.p.x], v0[LastCall.p.y])
         /\ OnCurve(v0[LastCall.q.x], v0[LastCall.q.y])
         /\ v0[LastCall.p.x] = v0[LastCall.q.x]
         /\ v0[LastCall.p.y] # v0[LastCall.q.y]

Gadgets == {"ec_add", "ec_double", "ec_generator"}

\* The constraints call c emitted.
ConstraintsOf(c) == { builder.constraints[j] : j \in (c.cons0 + 1)..c.cons1 }

\* C8: every register is allocated before a constraint or a later step refers
\* to it; ec_double allocates the constant a, then the constant 3, before
\* sw_double uses them, and the slope before the coordinates; ec_generator
\* allocates the constants x and y before it builds the point from them.
C8_AllocatedBeforeUse ==
    /\ \A j \in 1..Len(builder.constraints) :
         LET c == builder.constraints[j] IN
         /\ c.out \in 1..Len(builder.regs)
         /\ c.l < c.out /\ c.r < c.out
         /\ \A i \in 1..(j - 1) : builder.constraints[i].out < c.out
    /\ \A k \in 1..Len(calls) :
         LET c == calls[k] IN
         /\ c.op \in {"ec_add", "ec_double"} =>
              \A r \in {c.p.x, c.p.y, c.q.x, c.q.y} : r \in 1..c.regs0
         /\ c.op = "ec_double" =>
              LET ca    == builder.constraints[c.cons0 + 1]
                  c3    == builder.constraints[c.cons0 + 2]
                  rest  == { builder.constraints[j] :
                             j \in (c.cons0 + 3)..c.cons1 }
                  slope == { d \in rest : d.op = "div" }
              IN  /\ ca.op = "const" /\ ca.out = c.regs0 + 1
                  /\ BigToNat(ca.value) = CoeffA
                  /\ c3.op = "const" /\ c3.out = c.regs0 + 2
                  /\ BigToNat(c3.value) = 3
                  /\ \A d \in rest : d.op # "const" /\ d.out > c3.out
                  /\ \E d \in rest : ca.out \in {d.l, d.r}
                  /\ \E d \in rest : c3.out \in {d.l, d.r}
                  /\ \E d \in slope : d.out < c.point.x /\ d.out < c.point.y
         /\ c.op = "ec_generator" =>
              /\ c.point.x = c.regs0 + 1
              /\ c.point.y = c.regs0 + 2
              /\ c.point.y <= c.regs1
              /\ { d.out : d \in ConstraintsOf(c) } = {c.point.x, c.point.y}

\* ec_double has been called after ec_generator, on a curve with a # 3.
C8_Witness ==
    /\ calls # << >>
    /\ LastCall.op = "ec_double"
    /\ CallsOf("ec_generator") # {}
    /\ CoeffA # 3

IsPrefix(s, t) == Len(s) <= Len(t) /\ SubSeq(t, 1, Len(s)) = s

\* C9: a call of ec_add, ec_double or ec_generator only adds to the builder:
\* the registers and constraints it found are a prefix of those it leaves,
\* the points held before (p and q among them) are unchanged, the returned
\* point consists of registers allocated by the call, and the curve constants
\* never change.
C9_PurelyAdditive ==
    [][ /\ IsPrefix(builder.regs, builder'.regs)
        /\ IsPrefix(builder.constraints, builder'.constraints)
        /\ IsPrefix(points, points')
        /\ IsPrefix(calls, calls')
        /\ E' = E
        /\ calls' # calls =>
             LET c == calls'[Len(calls')] IN
             c.op \in Gadgets =>
                /\ c.point = points'[Len(points')]
                /\ c.point.x \in (Len(builder.regs) + 1)..Len(builder'.regs)
                /\ c.point.y \in (Len(builder.regs) + 1)..Len(builder'.regs)
                /\ c.point.x # c.point.y ]_vars

\* Each gadget has been called on a builder that already held registers and
\* constraints.
C9_Witness ==
    /\ Len(calls) = MaxOps
    /\ LastCall.op = "ec_generator"
    /\ LastCall.cons0 > 0
    /\ \A k \in 1..Len(calls) : calls[k].op \in Gadgets

\* The constant registers among registers lo+1..hi.
ConstRegs(lo, hi) == { r \in (lo + 1)..hi : builder.regs[r] = "const" }

\* C10: every call of ec_double allocates exactly two constant registers of
\* its own (a, then 3) and uses those, so k calls allocate 2k; every call of
\* ec_generator allocates exactly two; ec_add allocates none.
C10_ConstantsPerCall ==
    /\ \A k \in 1..Len(calls) :
         LET c == calls[k] IN
         /\ c.regs0 = IF k = 1 THEN 0 ELSE calls[k - 1].regs1
         /\ c.op \in {"ec_double", "ec_generator"} =>
              ConstRegs(c.regs0, c.regs1) = {c.regs0 + 1, c.regs0 + 2}
         /\ c.op = "ec_double" =>
              \A d \in ConstraintsOf(c) :
                  \A r \in {d.l, d.r} \ {0, c.p.x, c.p.y} :
                      r \in (c.regs0 + 1)..c.regs1
         /\ c.op \in {"ec_add", "alloc_ec_point"} =>
              ConstRegs(c.regs0, c.regs1) = {}
    /\ calls # << >> => LastCall.regs1 = Len(builder.regs)
    /\ Cardinality(ConstRegs(0, Len(builder.regs)))
         = 2 * Cardinality(CallsOf("ec_double"))
           + 2 * Cardinality(CallsOf("ec_generator"))

\* ec_double has been called twice on one builder.
C10_Witness ==
    /\ Cardinality(CallsOf("ec_double")) >= 2
    /\ Cardinality(ConstRegs(0, Len(builder.regs))) >= 4

====
